---- MODULE Spec2Model ----
(***************************************************************************)
(* Model of the batch downloaders playlists.py and playlists.m3u.py: a     *)
(* main thread submits one download_file task per manifest entry to a      *)
(* ThreadPoolExecutor, each task runs a retry loop of HTTP attempts, and   *)
(* the main thread collects the futures with as_completed.                 *)
(***************************************************************************)
EXTENDS Integers, Sequences, FiniteSets, TLC

(* ---------------- bounds of the model ---------------- *)

\* number of manifest entries of a run
NumEntries == 2
\* largest pool size explored (args.max_workers / MAX_WORKERS)
MaxWorkers == 2

(* ---------------- program constants ---------------- *)

DEFAULT_RETRIES == 3
RETRIES == 3
DELAY_BETWEEN_TRIES == 2
\* length of the prefix is_valid_m3u searches
M3U_WINDOW == 100
\* length of the literal b"#EXTM3U"
MARKER_LEN == 7

Scripts == {"playlists.py", "playlists.m3u.py"}

(* ---------------- byte contents ---------------- *)

\* A content is described by what the code looks at: its length, the offset
\* of the first "#EXTM3U" (-1: none), its first two bytes, and what a gzip
\* reader makes of it ("data": decodes to at least one byte, "empty": a
\* well-formed stream with an empty payload, "invalid": not decodable).
GZIP_MAGIC == <<31, 139>>

EmptyBody == [len |-> 0, marker |-> -1, head |-> <<>>, gz |-> "invalid"]
M3uBody == [len |-> 120, marker |-> 0, head |-> <<35, 69>>, gz |-> "invalid"]
M3uLate == [len |-> 120, marker |-> 94, head |-> <<10, 10>>, gz |-> "invalid"]
GzGood == [len |-> 50, marker |-> -1, head |-> GZIP_MAGIC, gz |-> "data"]
GzEmptyPayload == [len |-> 20, marker |-> -1, head |-> GZIP_MAGIC, gz |-> "empty"]
GzCorrupt == [len |-> 50, marker |-> -1, head |-> GZIP_MAGIC, gz |-> "invalid"]
Html == [len |-> 30, marker |-> -1, head |-> <<60, 33>>, gz |-> "invalid"]

Bodies == {EmptyBody, M3uBody, M3uLate, GzGood, GzEmptyPayload, GzCorrupt, Html}

Min(a, b) == IF a < b THEN a ELSE b

\* the first n bytes of content c (what a transfer cut after n bytes wrote)
Truncate(c, n) ==
    IF n >= c.len THEN c
    ELSE [len |-> n,
          marker |-> IF c.marker >= 0 /\ c.marker + MARKER_LEN <= n THEN c.marker ELSE -1,
          head |-> SubSeq(c.head, 1, Min(n, Len(c.head))),
          gz |-> "invalid"]

\* number of bytes received before a mid-transfer fault
CutPoints == {0, 1}

(* ---------------- responses of the server ---------------- *)

Statuses == {200, 206, 300, 404}
\* "none": the response arrives whole; "connect": requests.get raises before a
\* response; "midstream": the connection breaks while the body is read
Faults == {"none", "connect", "midstream"}

Responses ==
    [fault : {"none"}, status_code : Statuses, content : Bodies, cut : {0}]
    \cup [fault : {"connect"}, status_code : {0}, content : {EmptyBody}, cut : {0}]
    \cup [fault : {"midstream"}, status_code : {200}, content : Bodies \ {EmptyBody}, cut : CutPoints]

\* what lastResp holds before the first request
NoResponse == [fault |-> "connect", status_code |-> 0, content |-> EmptyBody, cut |-> 0]

(* ---------------- manifest ---------------- *)

Schemes == {"http://", "https://", "ftp://"}
\* extensions of the file names of files_to_download / files_config
Exts == {".m3u", ".xml.gz"}
ManifestEntry == [scheme : Schemes, ext : Exts]

\* the manifests and the server behaviour of the batch specification: one
\* entry of each kind of file, one entry with a URL that is not http(s), and
\* a server that serves a playlist, an archive, an error status or nothing
BatchEntries ==
    {[scheme |-> "http://", ext |-> ".m3u"],
     [scheme |-> "https://", ext |-> ".xml.gz"],
     [scheme |-> "ftp://", ext |-> ".m3u"]}
BatchResponses ==
    {[fault |-> "none", status_code |-> 200, content |-> M3uBody, cut |-> 0],
     [fault |-> "none", status_code |-> 200, content |-> GzGood, cut |-> 0],
     [fault |-> "none", status_code |-> 404, content |-> Html, cut |-> 0],
     [fault |-> "connect", status_code |-> 0, content |-> EmptyBody, cut |-> 0]}

VARIABLES
    script,         \* which of the two scripts runs
    max_workers,    \* size of the ThreadPoolExecutor
    manifest,       \* sequence of entries [scheme, ext]
    server,         \* the responses the remote servers can give in this run
    submitted,      \* number of entries main has submitted (futures list)
    queue,          \* work queue of the executor: submitted, not started
    pc,             \* entry -> position of its download_file call
    attempt,        \* entry -> loop variable of the retry loop
    fs,             \* entry -> <<>> (no file at save_path) or <<content>>
    lastErr,        \* entry -> error of the latest attempt ("none": it succeeded)
    lastResp,       \* entry -> response to the latest request
    requests,       \* entry -> number of requests.get calls issued
    sleeps,         \* entry -> sequence of time.sleep arguments
    future,         \* entry -> state of the future: result or exception
    yielded,        \* futures as_completed has already yielded
    counted,        \* entry -> number of times main tallied it
    success_count,
    failure_count,
    results,        \* playlists.m3u.py: list of future results
    mainPc,         \* position of the main thread
    unstarted,      \* entries not yet started when KeyboardInterrupt arrived
    exitCode        \* exit status of the process (-1: still running)

vars == <<script, max_workers, manifest, server, submitted, queue, pc, attempt, fs,
          lastErr, lastResp, requests, sleeps, future, yielded, counted, success_count,
          failure_count, results, mainPc, unstarted, exitCode>>

Entries == DOMAIN manifest

(* ---------------- pure helpers ---------------- *)

\* str.lower() on the extensions that occur
Lower(s) ==
    CASE s = ".M3U" -> ".m3u"
      [] s = ".XML.GZ" -> ".xml.gz"
      [] OTHER -> s

\* faulty variant: every URL is accepted
validate_url_any(url) == TRUE
validate_url(url) == url.scheme \in {"http://", "https://"}

validate_file_extension(ext, expected_ext) == Lower(ext) = Lower(expected_ext)

is_valid_m3u(content) ==
    content.marker >= 0 /\ content.marker + MARKER_LEN <= M3U_WINDOW

is_valid_xml_gz(content) == content.head = GZIP_MAGIC

\* faulty variant: an empty payload counts as unreadable
verify_gzip_needsByte(file) == file # <<>> /\ file[1].gz = "data"
\* file is <<>> or <<content>>; gzip.open(...).read(1) raises for content that
\* is no gzip stream and returns b"" for a stream with an empty payload
verify_gzip(file) == file # <<>> /\ file[1].gz \in {"data", "empty"}

getsize(file) == file[1].len

(* ---------------- one attempt of download_file ---------------- *)

Failed(err, file) == [ok |-> FALSE, err |-> err, file |-> file]
\* faulty variant: the loop does not return after a good attempt
Succeeded_noReturn(file) == [ok |-> FALSE, err |-> "none", file |-> file]
Succeeded(file) == [ok |-> TRUE, err |-> "none", file |-> file]

\* faulty variant: the check of the file at rest is left out
AttemptPy_noStageB(ext, r, file) ==
    IF r.fault # "none" THEN Failed("TransportError", file)
    ELSE IF r.status_code # 200 THEN Failed("HttpStatusError", file)
    ELSE IF validate_file_extension(ext, ".m3u") /\ ~is_valid_m3u(r.content)
        THEN Failed("ContentValidationError", file)
    ELSE IF validate_file_extension(ext, ".xml.gz") /\ ~is_valid_xml_gz(r.content)
        THEN Failed("ContentValidationError", file)
    ELSE LET written == <<r.content>> IN
        IF getsize(written) = 0 THEN Failed("EmptyFileError", written)
        ELSE Succeeded(written)

\* body of the try block of playlists.py for the response r, the file at
\* save_path being `file` before the attempt
AttemptPy(ext, r, file) ==
    IF r.fault # "none" THEN Failed("TransportError", file)
    ELSE IF r.status_code # 200 THEN Failed("HttpStatusError", file)
    ELSE IF validate_file_extension(ext, ".m3u") /\ ~is_valid_m3u(r.content)
        THEN Failed("ContentValidationError", file)
    ELSE IF validate_file_extension(ext, ".xml.gz") /\ ~is_valid_xml_gz(r.content)
        THEN Failed("ContentValidationError", file)
    ELSE LET written == <<r.content>> IN
        IF getsize(written) = 0 THEN Failed("EmptyFileError", written)
        ELSE IF ext = ".xml.gz" /\ ~verify_gzip(written)
            THEN Failed("CorruptArchiveError", written)
        ELSE Succeeded(written)

\* faulty variant: everything but 200 raises
raise_for_status_not200(status_code) == status_code # 200
\* requests' Response.raise_for_status: raises for 4xx and 5xx
raise_for_status(status_code) == status_code >= 400 /\ status_code < 600

\* faulty variant: a file that is already there is kept
AttemptM3u_keepsExisting(ext, r, file) ==
    IF r.fault = "connect" THEN Failed("TransportError", file)
    ELSE IF raise_for_status(r.status_code) THEN Failed("HttpStatusError", file)
    ELSE IF r.fault = "midstream"
        THEN Failed("TransportError", <<Truncate(r.content, r.cut)>>)
    ELSE LET written == IF file # <<>> THEN file ELSE <<r.content>> IN
        IF getsize(written) > 0 THEN Succeeded(written)
        ELSE Failed("EmptyFileError", <<>>)

\* body of the try block of playlists.m3u.py
AttemptM3u(ext, r, file) ==
    IF r.fault = "connect" THEN Failed("TransportError", file)
    ELSE IF raise_for_status(r.status_code) THEN Failed("HttpStatusError", file)
    ELSE IF r.fault = "midstream"
        THEN Failed("TransportError", <<Truncate(r.content, r.cut)>>)
    ELSE LET written == <<r.content>> IN
        IF getsize(written) > 0 THEN Succeeded(written)
        ELSE Failed("EmptyFileError", <<>>)

AttemptOf(s, ext, r, file) ==
    IF s = "playlists.py" THEN AttemptPy(ext, r, file) ELSE AttemptM3u(ext, r, file)

(* ---------------- the retry loop ---------------- *)

Retries(s) == IF s = "playlists.py" THEN DEFAULT_RETRIES ELSE RETRIES
\* range(1, retries + 1) in playlists.py, range(retries) in playlists.m3u.py
FirstAttempt(s) == IF s = "playlists.py" THEN 1 ELSE 0

RECURSIVE Pow2(_)
Pow2(n) == IF n = 0 THEN 1 ELSE 2 * Pow2(n - 1)

\* faulty variant: playlists.py waits a fixed time
WaitTime_fixed(s, a) == DELAY_BETWEEN_TRIES
\* argument of time.sleep after the failed attempt a
WaitTime(s, a) == IF s = "playlists.py" THEN Pow2(a) ELSE DELAY_BETWEEN_TRIES

\* faulty variant: the handler of playlists.py gives up one attempt early
AfterFailure_offByOne(s, a, err) ==
    IF s = "playlists.py" THEN (IF a < Retries(s) - 1 THEN "sleep" ELSE "return")
    ELSE IF err # "EmptyFileError" /\ a < Retries(s) - 1 THEN "sleep"
    ELSE IF a + 1 < Retries(s) THEN "next" ELSE "return"

\* what follows the failed attempt a.  playlists.py: the handler sleeps if
\* attempt < retries and returns False otherwise.  playlists.m3u.py: the
\* handlers sleep if attempt < retries - 1, the empty-file branch is no
\* handler and never sleeps, and range(retries) decides whether the loop
\* goes on or falls through to return False.
AfterFailure(s, a, err) ==
    IF s = "playlists.py" THEN (IF a < Retries(s) THEN "sleep" ELSE "return")
    ELSE IF err # "EmptyFileError" /\ a < Retries(s) - 1 THEN "sleep"
    ELSE IF a + 1 < Retries(s) THEN "next" ELSE "return"

(* ---------------- the executor ---------------- *)

\* faulty variant: a worker that has finished a call is never given another one
Active_neverReleased == {e \in Entries : pc[e] \in {"running", "sleeping", "returned"}}
\* entries whose download_file call has started and not returned
Active == {e \in Entries : pc[e] \in {"running", "sleeping"}}

\* faulty variant: the pool starts a thread for every work item
WorkerFree_unbounded == TRUE

\* faulty variant: no work item is started while a call sleeps
WorkerFree_blockedBySleep ==
    Cardinality(Active) < max_workers /\ \A e \in Entries : pc[e] # "sleeping"

\* a worker thread of the pool is free to take the next work item
WorkerFree == Cardinality(Active) < max_workers

(* ---------------- initial state ---------------- *)

Start0 ==
    /\ script \in Scripts
    /\ max_workers \in 1..MaxWorkers
    /\ submitted = 0
    /\ queue = <<>>
    /\ pc = [e \in Entries |-> "unsubmitted"]
    /\ attempt = [e \in Entries |-> FirstAttempt(script)]
    /\ fs = [e \in Entries |-> <<>>]
    /\ lastErr = [e \in Entries |-> "none"]
    /\ lastResp = [e \in Entries |-> NoResponse]
    /\ requests = [e \in Entries |-> 0]
    /\ sleeps = [e \in Entries |-> <<>>]
    /\ future = [e \in Entries |-> "pending"]
    /\ yielded = {}
    /\ counted = [e \in Entries |-> 0]
    /\ success_count = 0
    /\ failure_count = 0
    /\ results = <<>>
    /\ mainPc = "submit"
    /\ unstarted = {}
    /\ exitCode = -1

\* a batch of NumEntries entries
Init ==
    /\ manifest \in [1..NumEntries -> BatchEntries]
    /\ server = BatchResponses
    /\ Start0

\* a manifest of one entry, against every response of the model
FetchInit ==
    /\ manifest \in [1..1 -> ManifestEntry]
    /\ server = Responses
    /\ Start0

(* ---------------- main thread: submission ---------------- *)

\* futures.append(executor.submit(download_file, url, save_path))
Submit ==
    /\ mainPc = "submit"
    /\ submitted < Len(manifest)
    /\ LET e == submitted + 1 IN
        /\ queue' = Append(queue, e)
        /\ pc' = [pc EXCEPT ![e] = "queued"]
    /\ submitted' = submitted + 1
    /\ mainPc' = IF submitted + 1 = Len(manifest) THEN "collect" ELSE "submit"
    /\ UNCHANGED <<script, max_workers, manifest, server, lastResp, attempt, fs, lastErr, requests,
                   sleeps, future, yielded, counted, success_count,
                   failure_count, results, unstarted, exitCode>>

(* ---------------- worker threads ---------------- *)

\* a free worker takes the oldest work item and enters download_file, which
\* validates the URL before the loop
Start(e) ==
    /\ queue # <<>>
    /\ e = Head(queue)
    /\ WorkerFree
    /\ queue' = Tail(queue)
    /\ IF validate_url(manifest[e])
       THEN /\ pc' = [pc EXCEPT ![e] = "running"]
            /\ UNCHANGED <<future, lastErr>>
       ELSE /\ pc' = [pc EXCEPT ![e] = "returned"]
            /\ lastErr' = [lastErr EXCEPT ![e] = "InvalidUrl"]
            /\ future' = [future EXCEPT ![e] =
                  IF script = "playlists.py" THEN "InvalidURLError" ELSE "False"]
    /\ UNCHANGED <<script, max_workers, manifest, server, lastResp, submitted, attempt, fs, requests,
                   sleeps, yielded, counted, success_count, failure_count,
                   results, mainPc, unstarted, exitCode>>

\* one iteration of the retry loop: request, checks, write, and the handler
Attempt(e) ==
    /\ pc[e] = "running"
    /\ \E r \in server :
        LET a == attempt[e]
            out == AttemptOf(script, manifest[e].ext, r, fs[e])
            then == AfterFailure(script, a, out.err)
        IN
        /\ requests' = [requests EXCEPT ![e] = @ + 1]
        /\ fs' = [fs EXCEPT ![e] = out.file]
        /\ lastErr' = [lastErr EXCEPT ![e] = out.err]
        /\ lastResp' = [lastResp EXCEPT ![e] = r]
        /\ IF out.ok
           THEN /\ pc' = [pc EXCEPT ![e] = "returned"]
                /\ future' = [future EXCEPT ![e] = "True"]
                /\ UNCHANGED <<attempt, sleeps>>
           ELSE IF then = "sleep"
           THEN /\ pc' = [pc EXCEPT ![e] = "sleeping"]
                /\ sleeps' = [sleeps EXCEPT ![e] = Append(@, WaitTime(script, a))]
                /\ UNCHANGED <<attempt, future>>
           ELSE IF then = "next"
           THEN /\ attempt' = [attempt EXCEPT ![e] = a + 1]
                /\ UNCHANGED <<pc, sleeps, future>>
           ELSE /\ pc' = [pc EXCEPT ![e] = "returned"]
                /\ future' = [future EXCEPT ![e] = "False"]
                /\ UNCHANGED <<attempt, sleeps>>
    /\ UNCHANGED <<script, max_workers, manifest, server, submitted, queue, yielded,
                   counted, success_count, failure_count, results, mainPc,
                   unstarted, exitCode>>

\* faulty variant: the worker counts the failed attempt in the shared tally
Wake_tallies(e) ==
    /\ pc[e] = "sleeping"
    /\ pc' = [pc EXCEPT ![e] = "running"]
    /\ attempt' = [attempt EXCEPT ![e] = @ + 1]
    /\ failure_count' = failure_count + 1
    /\ UNCHANGED <<script, max_workers, manifest, server, lastResp, submitted, queue,
                   fs, lastErr, requests, sleeps, future, yielded, counted,
                   success_count, results, mainPc, unstarted, exitCode>>

\* time.sleep returns and the loop goes to its next iteration
Wake(e) ==
    /\ pc[e] = "sleeping"
    /\ pc' = [pc EXCEPT ![e] = "running"]
    /\ attempt' = [attempt EXCEPT ![e] = @ + 1]
    /\ UNCHANGED <<script, max_workers, manifest, server, lastResp, submitted, queue, fs, lastErr,
                   requests, sleeps, future, yielded, counted, success_count,
                   failure_count, results, mainPc, unstarted, exitCode>>

(* ---------------- main thread: collection ---------------- *)

\* what the loop body of playlists.py adds to success_count and to
\* failure_count for a future that holds fut: a truthy result counts as a
\* success, a falsy result and a raised exception as a failure
SuccessDelta(fut) == IF fut = "True" THEN 1 ELSE 0
\* faulty variant: the except branch forgets to count
FailureDelta_resultsOnly(fut) == IF fut = "False" THEN 1 ELSE 0
FailureDelta(fut) == IF fut = "True" THEN 0 ELSE 1

\* is an exception raised by future.result() handled inside the collection
\* loop?  playlists.py wraps the loop body in try/except; the comprehension
\* of playlists.m3u.py is only covered by the handler around all of main
\* faulty variant: no script handles it there
HandlesInLoop_never(s) == FALSE
HandlesInLoop(s) == s = "playlists.py"

\* as_completed yields a finished future that it has not yielded yet, and
\* the loop body tallies future.result()
Collect(e) ==
    /\ mainPc = "collect"
    /\ pc[e] = "returned"
    /\ e \notin yielded
    /\ yielded' = yielded \cup {e}
    /\ IF future[e] \notin {"True", "False"} /\ ~HandlesInLoop(script)
       THEN \* the exception leaves the loop
            /\ mainPc' = "raised"
            /\ UNCHANGED <<success_count, failure_count, results, counted>>
       ELSE IF script = "playlists.py"
       THEN /\ success_count' = success_count + SuccessDelta(future[e])
            /\ failure_count' = failure_count + FailureDelta(future[e])
            /\ counted' = [counted EXCEPT ![e] =
                              @ + SuccessDelta(future[e]) + FailureDelta(future[e])]
            /\ UNCHANGED <<results, mainPc>>
       ELSE /\ results' = Append(results, future[e] = "True")
            /\ counted' = [counted EXCEPT ![e] = @ + 1]
            /\ UNCHANGED <<success_count, failure_count, mainPc>>
    /\ UNCHANGED <<script, max_workers, manifest, server, lastResp, submitted, queue, pc, attempt,
                   fs, lastErr, requests, sleeps, future, unstarted, exitCode>>

RECURSIVE all(_)
all(seq) == IF seq = <<>> THEN TRUE ELSE Head(seq) /\ all(Tail(seq))

\* exit status of the process: playlists.py falls off the end of the module
\* whatever main did (its handlers only log); playlists.m3u.py calls
\* exit(0 if main() else 1), ret being what main returned
ExitStatus(s, ret) ==
    IF s = "playlists.py" THEN 0
    ELSE IF ret THEN 0 ELSE 1

\* KeyboardInterrupt is raised in the main thread while it submits or waits
\* in as_completed.  It is no Exception, so neither the handler in the loop
\* of playlists.py nor the one around main of playlists.m3u.py catches it;
\* it leaves the with block, whose exit waits for the workers without
\* cancelling what is queued.
Interrupt ==
    /\ mainPc \in {"submit", "collect"}
    /\ mainPc' = "interrupted"
    /\ unstarted' = {e \in Entries : pc[e] \in {"unsubmitted", "queued"}}
    /\ UNCHANGED <<script, max_workers, manifest, server, lastResp, submitted, queue, pc, attempt,
                   fs, lastErr, requests, sleeps, future, yielded, counted,
                   success_count, failure_count, results, exitCode>>

\* the with block is left (the executor waits for its workers), the final
\* log line is written and the process exits
Finish ==
    /\ \/ mainPc = "collect" /\ yielded = Entries
       \/ mainPc = "raised" /\ \A e \in Entries : pc[e] = "returned"
       \/ mainPc = "interrupted" /\ \A e \in Entries : pc[e] \in {"unsubmitted", "returned"}
    /\ mainPc' = IF mainPc = "interrupted" THEN "stopped" ELSE "done"
    /\ exitCode' = ExitStatus(script, mainPc = "collect" /\ all(results))
    /\ UNCHANGED <<script, max_workers, manifest, server, lastResp, submitted, queue, pc, attempt,
                   fs, lastErr, requests, sleeps, future, yielded, counted,
                   success_count, failure_count, results, unstarted>>

Next ==
    \/ Submit
    \/ \E e \in Entries : Start(e)
    \/ \E e \in Entries : Attempt(e)
    \/ \E e \in Entries : Wake(e)
    \/ \E e \in Entries : Collect(e)
    \/ Interrupt
    \/ Finish

Spec == Init /\ [][Next]_vars

FetchSpec == FetchInit /\ [][Next]_vars

\* the batch against a server that either serves a playlist or is unreachable
FairResponses ==
    {[fault |-> "none", status_code |-> 200, content |-> M3uBody, cut |-> 0],
     [fault |-> "connect", status_code |-> 0, content |-> EmptyBody, cut |-> 0]}
FairInit ==
    /\ manifest \in [1..NumEntries -> BatchEntries]
    /\ server = FairResponses
    /\ Start0

\* every thread that can take a step eventually takes one
FairSpec == FairInit /\ [][Next]_vars /\ WF_vars(Next)

TypeOK ==
    /\ script \in Scripts
    /\ max_workers \in 1..MaxWorkers
    /\ submitted \in 0..Len(manifest)
    /\ \A e \in Entries : Len(fs[e]) <= 1
    /\ mainPc \in {"submit", "collect", "raised", "interrupted", "stopped", "done"}
    /\ unstarted \subseteq Entries
    /\ exitCode \in {-1, 0, 1}

(* ======================================================================= *)
(* Properties                                                              *)
(* ======================================================================= *)

\* C1: when the dispatch loop of main() in playlists.py has finished,
\* success_count + failure_count equals the number of manifest entries and
\* every entry has been tallied exactly once; before that no entry is ever
\* tallied twice and the sum is the number of futures yielded so far.
C1_EveryEntryCountedOnce ==
    script = "playlists.py" =>
        /\ success_count + failure_count = Cardinality(yielded)
        /\ \A e \in Entries : counted[e] = IF e \in yielded THEN 1 ELSE 0
        /\ mainPc = "done" =>
              /\ success_count + failure_count = Len(manifest)
              /\ \A e \in Entries : counted[e] = 1

\* C1 witness: a finished run of playlists.py in which one entry succeeded,
\* one exhausted its attempts and hence one of each tally was made
C1_Witness ==
    /\ script = "playlists.py"
    /\ mainPc = "done"
    /\ \E e1, e2 \in Entries :
          /\ future[e1] = "True"
          /\ future[e2] = "False"
          /\ lastErr[e2] \in {"HttpStatusError", "ContentValidationError", "TransportError"}

\* C2: the number of download_file calls that have started and not returned,
\* sleeping ones included, never exceeds max_workers.
C2_AtMostMaxWorkersActive ==
    Cardinality({e \in Entries : pc[e] = "running" \/ pc[e] = "sleeping"}) <= max_workers

\* C2 witness: the pool is full, one of its pipelines sleeps in backoff, and
\* a further entry waits in the queue
C2_Witness ==
    /\ Len(manifest) > max_workers
    /\ Cardinality({e \in Entries : pc[e] = "running" \/ pc[e] = "sleeping"}) = max_workers
    /\ \E e \in Entries : pc[e] = "sleeping"
    /\ queue # <<>>

\* C3 (as claimed): after an attempt that ended in failure there is no file
\* at save_path.  No file exists there when the batch starts and a successful
\* attempt ends the loop, so no earlier successful write can account for one.
C3_FailedAttemptLeavesNoFile ==
    \A e \in Entries : lastErr[e] # "none" => fs[e] = <<>>

C5_FaultDoesNotAbortSiblings ==
    mainPc = "done" =>
        /\ \A e \in Entries : pc[e] = "returned" /\ counted[e] = 1
        /\ script = "playlists.py" =>
              /\ success_count = Cardinality({e \in Entries : future[e] = "True"})
              /\ failure_count = Cardinality({e \in Entries : future[e] # "True"})
        /\ script = "playlists.m3u.py" => Len(results) = Len(manifest)

\* C5 witness: the first entry raised InvalidURLError and a later entry was
\* still downloaded and both were tallied
C5_Witness ==
    /\ mainPc = "done"
    /\ \E e1, e2 \in Entries :
          /\ e1 < e2
          /\ future[e1] = "InvalidURLError"
          /\ future[e2] = "True"
          /\ counted[e1] = 1 /\ counted[e2] = 1

\* C6: for a valid URL, a call none of whose attempts succeeds has issued
\* exactly max_attempts requests when it returns, and it returns False; no
\* call ever issues more.
C6_ExactlyMaxAttempts ==
    \A e \in Entries :
        /\ requests[e] <= Retries(script)
        /\ (pc[e] = "returned" /\ manifest[e].scheme # "ftp://" /\ future[e] # "True") =>
              requests[e] = Retries(script) /\ future[e] = "False"

\* C6 witness: a call returned False after a transport error on its last try
C6_Witness ==
    \E e \in Entries :
        /\ future[e] = "False"
        /\ manifest[e].scheme # "ftp://"
        /\ lastErr[e] = "TransportError"
        /\ requests[e] = 3

\* C7: an entry whose URL starts with neither http:// nor https:// never
\* issues a request, never sleeps and never enters the loop; it ends as a
\* failure (InvalidURLError tallied once by main in playlists.py, False in
\* playlists.m3u.py).
C7_InvalidUrlFailsWithoutRequest ==
    \A e \in Entries : manifest[e].scheme \notin {"http://", "https://"} =>
        /\ requests[e] = 0
        /\ sleeps[e] = <<>>
        /\ pc[e] \in {"unsubmitted", "queued", "returned"}
        /\ pc[e] = "returned" =>
              future[e] = IF script = "playlists.py" THEN "InvalidURLError" ELSE "False"
        /\ (e \in yielded /\ script = "playlists.py") =>
              counted[e] = 1 /\ failure_count >= 1
        /\ (e \in yielded /\ script = "playlists.m3u.py") => FALSE \in {results[i] : i \in DOMAIN results}

\* C7 witness: main of playlists.py has tallied an ftp:// entry
C7_Witness ==
    /\ script = "playlists.py"
    /\ mainPc = "done"
    /\ \E e \in Entries : manifest[e].scheme = "ftp://" /\ e \in yielded
    /\ failure_count = 1

\* C8: in playlists.py the k-th backoff of a call follows its k-th failed
\* attempt, lasts 2 * 2^(k-1) seconds, and is longer than the one before.
C8_BackoffDoubles ==
    script = "playlists.py" =>
        \A e \in Entries :
            /\ pc[e] = "sleeping" => Len(sleeps[e]) = attempt[e]
            /\ pc[e] = "running" => Len(sleeps[e]) = attempt[e] - 1
            /\ \A k \in DOMAIN sleeps[e] :
                  /\ sleeps[e][k] = 2 * Pow2(k - 1)
                  /\ k > 1 => sleeps[e][k - 1] < sleeps[e][k]

\* C8 witness: a call of playlists.py has slept twice, 2 and then 4 seconds
C8_Witness ==
    /\ script = "playlists.py"
    /\ \E e \in Entries : sleeps[e] = <<2, 4>> /\ pc[e] = "running"

\* C9 (as claimed): the process exits with status 0 exactly when no entry
\* failed.
C9_ExitStatusZeroIffNoFailure ==
    mainPc = "done" =>
        (exitCode = 0 <=> \A e \in Entries : future[e] = "True")

\* C10: under fair scheduling every batch run terminates, and a run that no
\* KeyboardInterrupt cut short reaches the end of main with every entry
\* returned after at most max_attempts requests and tallied, the counts of
\* playlists.py covering the whole manifest.
C10_BatchTerminates ==
    <>(/\ mainPc \in {"done", "stopped"}
       /\ mainPc = "done" =>
             /\ \A e \in Entries :
                   pc[e] = "returned" /\ counted[e] = 1 /\ requests[e] <= Retries(script)
             /\ script = "playlists.py" => success_count + failure_count = Len(manifest))

\* C10 witness: a run has ended in which one entry used its last attempt and
\* failed and another entry raised
C10_Witness ==
    /\ mainPc = "done"
    /\ \E e1, e2 \in Entries :
          /\ future[e1] = "False" /\ requests[e1] = Retries(script)
          /\ future[e2] = "InvalidURLError"

\* C11 (as claimed): when playlists.py has stopped after a KeyboardInterrupt,
\* every entry that had not started when the interrupt arrived has issued no
\* request, is marked Cancelled and is tallied as a failure.
C11_UnstartedReportedCancelled ==
    (script = "playlists.py" /\ mainPc = "stopped") =>
        \A e \in unstarted :
            /\ requests[e] = 0
            /\ lastErr[e] = "Cancelled"
            /\ counted[e] = 1

\* C12 (as claimed): an attempt whose response has a status outside 200-299
\* fails, and the call goes on to its next attempt or, after the last one,
\* returns False.
C12_Non2xxFailsAttempt ==
    \A e \in Entries :
        (requests[e] > 0 /\ lastResp[e].fault = "none"
           /\ (lastResp[e].status_code < 200 \/ lastResp[e].status_code > 299)) =>
            /\ lastErr[e] # "none"
            /\ future[e] # "True"
            /\ pc[e] = "returned" => requests[e] = Retries(script)

\* C13 (as claimed): an attempt that ends at the status check or at the check
\* of the body in memory leaves the file at save_path as it was, and an
\* .xml.gz entry whose body lacks the gzip magic bytes fails that attempt and
\* has no file written.
C13_EarlyFailureWritesNothing ==
    \A e \in Entries :
        /\ (lastErr[e] \in {"HttpStatusError", "ContentValidationError"}
              /\ requests[e] = 1) => fs[e] = <<>>
        /\ (requests[e] = 1 /\ manifest[e].ext = ".xml.gz"
              /\ lastResp[e].fault = "none" /\ lastResp[e].content.head # <<31, 139>>) =>
                lastErr[e] # "none" /\ fs[e] = <<>>

\* C14: after download_file has returned True the file at save_path is
\* exactly the body of the response of that last attempt, whatever earlier
\* attempts left there.
C14_SuccessFileIsBody ==
    \A e \in Entries : future[e] = "True" =>
        /\ lastResp[e].fault = "none"
        /\ fs[e] = <<lastResp[e].content>>

\* C14 witness: playlists.m3u.py succeeded on its third request with a file
\* that is the whole body
C14_Witness ==
    /\ script = "playlists.m3u.py"
    /\ \E e \in Entries :
          /\ future[e] = "True"
          /\ requests[e] = 3
          /\ Len(sleeps[e]) = 2
          /\ fs[e] = <<GzGood>>

\* C15: the loop returns on its first good attempt: a call whose latest
\* attempt succeeded has returned True, the number of its requests is the
\* number of that attempt, and from then on it issues no request and never
\* sleeps.
C15_ReturnsOnFirstSuccess ==
    /\ [](\A e \in Entries :
            (requests[e] > 0 /\ lastErr[e] = "none") =>
                /\ pc[e] = "returned" /\ future[e] = "True"
                /\ requests[e] = attempt[e] - FirstAttempt(script) + 1)
    /\ [][\A e \in Entries : future[e] = "True" =>
            /\ requests'[e] = requests[e]
            /\ sleeps'[e] = sleeps[e]
            /\ future'[e] = "True"]_vars

\* C15 witness: a call returned True on its second attempt
C15_Witness ==
    \E e \in Entries :
        /\ future[e] = "True"
        /\ requests[e] = 2
        /\ e \in yielded

\* C16 (as claimed): every failed attempt that is not the last is followed
\* by one backoff and the last by none: a call that is about to request or
\* is asleep has slept once per request, a call that has returned once less.
C16_BackoffIffAttemptsRemain ==
    \A e \in Entries :
        /\ pc[e] \in {"running", "sleeping"} => Len(sleeps[e]) = requests[e]
        /\ (pc[e] = "returned" /\ requests[e] > 0) => Len(sleeps[e]) = requests[e] - 1

\* C17: a sleeping call blocks nobody: while some call sleeps, every running
\* call can take its next step, and the oldest queued entry can start
\* whenever fewer than max_workers calls are running or sleeping.
C17_BackoffBlocksNoOtherEntry ==
    (\E s \in Entries : pc[s] = "sleeping") =>
        /\ \A e \in Entries : pc[e] = "running" => ENABLED Attempt(e)
        /\ (queue # <<>>
              /\ Cardinality({e \in Entries : pc[e] = "running" \/ pc[e] = "sleeping"})
                    < max_workers) =>
                ENABLED Start(Head(queue))

\* C17 witness: one call sleeps in backoff while an entry waits in the queue
\* and a worker is free
C17_Witness ==
    /\ \E s \in Entries : pc[s] = "sleeping" /\ Len(sleeps[s]) = 1
    /\ queue # <<>>
    /\ Cardinality({e \in Entries : pc[e] = "running" \/ pc[e] = "sleeping"}) < max_workers

\* C18: the tallies are written by the main thread only: a step that changes
\* success_count, failure_count or results is a step of the collection loop
\* and changes nothing of any worker, and no update is lost: the tallies
\* always add up to the number of futures collected.
C18_TalliesWrittenByMainOnly ==
    /\ [](mainPc # "raised" =>
            success_count + failure_count + Len(results) = Cardinality(yielded))
    /\ [][(success_count' # success_count \/ failure_count' # failure_count
              \/ results' # results) =>
            /\ mainPc = "collect"
            /\ Cardinality(yielded') = Cardinality(yielded) + 1
            /\ UNCHANGED <<pc, attempt, fs, requests, sleeps, future, queue>>]_vars

\* C18 witness: one future has been tallied while another one, already
\* finished, waits to be collected
C18_Witness ==
    /\ mainPc = "collect"
    /\ \E e1, e2 \in Entries :
          /\ e1 \in yielded /\ counted[e1] = 1
          /\ e2 \notin yielded /\ pc[e2] = "returned"

\* C19 (as claimed): for an .xml.gz entry of playlists.py whose body reached
\* the check of the file at rest, the attempt passes exactly when the file
\* decodes to at least one byte.
C19_VerifyGzipNeedsDecodedByte ==
    \A e \in Entries :
        (script = "playlists.py" /\ manifest[e].ext = ".xml.gz" /\ requests[e] > 0
           /\ lastResp[e].fault = "none" /\ lastResp[e].status_code = 200
           /\ lastResp[e].content.head = <<31, 139>>) =>
            /\ lastErr[e] = "none" <=> lastResp[e].content.gz = "data"
            /\ lastErr[e] \in {"none", "CorruptArchiveError"}

\* C19 (amended): the attempt passes exactly when the file can be opened as
\* a gzip stream and reading one byte raises no error, which includes a
\* well-formed stream with an empty payload; otherwise it fails as a corrupt
\* archive.
C19_VerifyGzipAcceptsReadableStream ==
    \A e \in Entries :
        (script = "playlists.py" /\ manifest[e].ext = ".xml.gz" /\ requests[e] > 0
           /\ lastResp[e].fault = "none" /\ lastResp[e].status_code = 200
           /\ lastResp[e].content.head = <<31, 139>>) =>
            /\ lastErr[e] = "none" <=> lastResp[e].content.gz \in {"data", "empty"}
            /\ lastErr[e] \in {"none", "CorruptArchiveError"}

\* C19 witness: playlists.py accepted an archive with an empty payload
C19_Witness ==
    /\ script = "playlists.py"
    /\ \E e \in Entries :
          /\ manifest[e].ext = ".xml.gz"
          /\ future[e] = "True"
          /\ lastResp[e].content.gz = "empty"

\* C20 (as claimed): an attempt whose response has a status in 200-299 and a
\* non-empty body that is valid for the kind of the entry succeeds.
C20_Any2xxValidBodySucceeds ==
    \A e \in Entries :
        ( /\ requests[e] > 0
          /\ lastResp[e].fault = "none"
          /\ lastResp[e].status_code >= 200
          /\ lastResp[e].status_code <= 299
          /\ lastResp[e].content.len > 0
          /\ (manifest[e].ext = ".m3u" =>
                (lastResp[e].content.marker >= 0 /\ lastResp[e].content.marker + 7 <= 100))
          /\ (manifest[e].ext = ".xml.gz" =>
                (lastResp[e].content.head = <<31, 139>> /\ lastResp[e].content.gz # "invalid")) ) =>
            (lastErr[e] = "none" /\ future[e] = "True")

\* C20 (amended): the same for status 200 in playlists.py, which rejects
\* every other status, and for every status in 200-299 in playlists.m3u.py.
C20_AcceptedStatusValidBodySucceeds ==
    \A e \in Entries :
        ( /\ requests[e] > 0
          /\ lastResp[e].fault = "none"
          /\ lastResp[e].status_code >= 200
          /\ lastResp[e].status_code <= 299
          /\ (script = "playlists.py" => lastResp[e].status_code = 200)
          /\ lastResp[e].content.len > 0
          /\ (manifest[e].ext = ".m3u" =>
                (lastResp[e].content.marker >= 0 /\ lastResp[e].content.marker + 7 <= 100))
          /\ (manifest[e].ext = ".xml.gz" =>
                (lastResp[e].content.head = <<31, 139>> /\ lastResp[e].content.gz # "invalid")) ) =>
            (lastErr[e] = "none" /\ future[e] = "True")

\* C20 witness: playlists.m3u.py returned True for a 206 response with a
\* playlist body
C20_Witness ==
    /\ script = "playlists.m3u.py"
    /\ \E e \in Entries :
          /\ manifest[e].ext = ".m3u"
          /\ lastResp[e].status_code = 206
          /\ lastResp[e].content = M3uBody
          /\ future[e] = "True"

====
